---- MODULE Spec2Model ----
(***************************************************************************)
(* perturb_genes of notebooks/Task1.ipynb: validation of a perturbation    *)
(* request against an annotated count matrix, then per-gene scaling and    *)
(* rounding, in place or on a copy.                                        *)
(*                                                                         *)
(* An AnnData object is a record [obs_names, var_names, X], X a sequence   *)
(* of rows.  A factor is a rational [num, den] with den a power of two, so *)
(* that the product of a count and a factor is exact in floating point;    *)
(* counts stay far below 2^24, where the float32 matrix holds integers     *)
(* exactly.  Infinite and NaN factors are not modelled.                    *)
(* A target argument is tagged "str" or "list", a factor argument "float", *)
(* "int" or "list", as isinstance sees them.                               *)
(***************************************************************************)
EXTENDS Integers, Sequences, FiniteSets

VARIABLES adata, pre, call, ret, err, pc

vars == <<adata, pre, call, ret, err, pc>>

\* Longest target / factor sequence of a request.
MaxLen == 2

\* Largest count a call may store (caps growth under factors above 1).
MaxVal == 4

\* Number of example names in the not-found message (var_names[:3]).
ExampleCount == 3

----------------------------------------------------------------------------
\* Generic helpers

Range(s) == {s[i] : i \in DOMAIN s}

SeqsUpTo(S, n) == UNION {[1..k -> S] : k \in 0..n}

Min(a, b) == IF a < b THEN a ELSE b

\* [x \in s if P(x)] of a list comprehension, keeping the order of s.
RECURSIVE SelectInOrder(_, _)
SelectInOrder(s, S) ==
  IF s = <<>> THEN <<>>
  ELSE IF Head(s) \in S THEN <<Head(s)>> \o SelectInOrder(Tail(s), S)
  ELSE SelectInOrder(Tail(s), S)

----------------------------------------------------------------------------
\* Values

Q(n, d) == [num |-> n, den |-> d]

NoData == [obs_names |-> <<>>, var_names |-> <<>>, X |-> <<>>]

None == [ref |-> "None", val |-> NoData]

NoError == [type |-> "none", check |-> "none", missing |-> <<>>, examples |-> <<>>, lens |-> <<>>]

\* Arguments as Python sees them: a bare str or a sequence of str; a bare
\* float, a bare int or a sequence of numbers.
StrArg(t) == [kind |-> "str", scalar |-> t, seq |-> <<>>]

FloatArg(f) == [kind |-> "float", scalar |-> f, seq |-> <<>>]

IntArg(f) == [kind |-> "int", scalar |-> f, seq |-> <<>>]

ListOfStr(s) == [kind |-> "list", scalar |-> "", seq |-> s]

ListOfNum(s) == [kind |-> "list", scalar |-> Q(0, 1), seq |-> s]

NoCall == [target |-> ListOfStr(<<>>), factor |-> ListOfNum(<<>>), copy |-> FALSE]

----------------------------------------------------------------------------
\* Lines 77-80: scalar normalisation

\* if isinstance(target, str): target = [target]
NormTarget(target) ==
  IF target.kind = "str" THEN ListOfStr(<<target.scalar>>) ELSE target

\* if isinstance(factor, float): factor = [factor]
NormFactor(factor) ==
  IF factor.kind = "float" THEN ListOfNum(<<factor.scalar>>) ELSE factor

\* len(factor) is defined for sequences only; an int has no len().
HasLen(factor) == factor.kind = "list"

----------------------------------------------------------------------------
\* Lines 82-105: validation

TypeErrorNoLen ==
  [type |-> "TypeError", check |-> "len", missing |-> <<>>, examples |-> <<>>, lens |-> <<>>]

\* missing_genes = [t for t in target if t not in adata.var_names]
missing_genes(ad, target) ==
  SelectInOrder(target, Range(target) \ Range(ad.var_names))

\* Variant: the message lists every column label instead of the first three.
AllVarNames(ad) == ad.var_names

\* adata.var_names[:3].tolist()
ExampleNames(ad) == SubSeq(ad.var_names, 1, Min(ExampleCount, Len(ad.var_names)))

\* Variant: zero is rejected as well (f <= 0).
NonPositiveFactors(factor) == SelectSeq(factor, LAMBDA f : f.num <= 0)

\* [f for f in factor if f < 0.]
NegativeFactors(factor) == SelectSeq(factor, LAMBDA f : f.num < 0)

\* len(target) != len(set(target))
HasDuplicates(target) == Len(target) # Cardinality(Range(target))

ValueError(check, missing, examples, lens) ==
  [type |-> "ValueError", check |-> check, missing |-> missing,
   examples |-> examples, lens |-> lens]

\* Variant: the duplicate check runs before the not-found check.
ValidateDuplicateFirst(ad, target, factor) ==
  IF Len(target) # Len(factor)
    THEN ValueError("length", <<>>, <<>>, <<Len(target), Len(factor)>>)
  ELSE IF HasDuplicates(target)
    THEN ValueError("duplicate", <<>>, <<>>, <<>>)
  ELSE IF missing_genes(ad, target) # <<>>
    THEN ValueError("missing", missing_genes(ad, target), ExampleNames(ad), <<>>)
  ELSE IF NegativeFactors(factor) # <<>>
    THEN ValueError("negative", <<>>, <<>>, <<>>)
  ELSE NoError

\* Variant: the negative-factor check is missing.
ValidateNoSignCheck(ad, target, factor) ==
  IF Len(target) # Len(factor)
    THEN ValueError("length", <<>>, <<>>, <<Len(target), Len(factor)>>)
  ELSE IF missing_genes(ad, target) # <<>>
    THEN ValueError("missing", missing_genes(ad, target), ExampleNames(ad), <<>>)
  ELSE IF HasDuplicates(target)
    THEN ValueError("duplicate", <<>>, <<>>, <<>>)
  ELSE NoError

\* The four checks in the order of the code; NoError when all pass.
Validate(ad, target, factor) ==
  IF Len(target) # Len(factor)
    THEN ValueError("length", <<>>, <<>>, <<Len(target), Len(factor)>>)
  ELSE IF missing_genes(ad, target) # <<>>
    THEN ValueError("missing", missing_genes(ad, target), ExampleNames(ad), <<>>)
  ELSE IF NegativeFactors(factor) # <<>>
    THEN ValueError("negative", <<>>, <<>>, <<>>)
  ELSE IF HasDuplicates(target)
    THEN ValueError("duplicate", <<>>, <<>>, <<>>)
  ELSE NoError

----------------------------------------------------------------------------
\* Lines 107-115: copy, scale, round, write back

\* Position of a present name in var_names.
ColIndex(ad, name) == CHOOSE j \in DOMAIN ad.var_names : ad.var_names[j] = name

\* adata[:, target].X : all rows, the targeted columns in request order.
ViewX(ad, target) ==
  [i \in DOMAIN ad.X |-> [k \in DOMAIN target |-> ad.X[i][ColIndex(ad, target[k])]]]

\* Variant: the first factor is broadcast over every targeted column.
MultiplyFirstFactor(sub, factor) ==
  [i \in DOMAIN sub |->
    [k \in DOMAIN sub[i] |-> Q(sub[i][k] * factor[1].num, factor[1].den)]]

\* .multiply(factor): factor broadcast along the rows, one per column.
Multiply(sub, factor) ==
  [i \in DOMAIN sub |->
    [k \in DOMAIN sub[i] |-> Q(sub[i][k] * factor[k].num, factor[k].den)]]

\* Variant: ties go up (round-half-up).
RoundHalfUp(q) ==
  LET fl == q.num \div q.den
      r  == q.num % q.den
  IN IF 2 * r < q.den THEN fl ELSE fl + 1

\* np.round of one value: nearest integer, ties to the even one.
RoundHalfEven(q) ==
  LET fl == q.num \div q.den
      r  == q.num % q.den
  IN IF 2 * r < q.den THEN fl
     ELSE IF 2 * r > q.den THEN fl + 1
     ELSE IF fl % 2 = 0 THEN fl ELSE fl + 1

\* np.round(perturbed_counts)
np_round(m) == [i \in DOMAIN m |-> [k \in DOMAIN m[i] |-> RoundHalfEven(m[i][k])]]

\* Variant: column k of value is written to column k of the parent, whatever
\* gene the k-th target names.
SetViewXPositional(ad, target, value) ==
  [ad EXCEPT !.X =
    [i \in DOMAIN ad.X |->
      [j \in DOMAIN ad.X[i] |->
        IF j \in DOMAIN target THEN value[i][j] ELSE ad.X[i][j]]]]

\* adata[:, target].X = value : column target[k] of the parent receives
\* column k of value.
SetViewX(ad, target, value) ==
  [ad EXCEPT !.X =
    [i \in DOMAIN ad.X |->
      [j \in DOMAIN ad.X[i] |->
        IF \E k \in DOMAIN target : ColIndex(ad, target[k]) = j
        THEN value[i][CHOOSE k \in DOMAIN target : ColIndex(ad, target[k]) = j]
        ELSE ad.X[i][j]]]]

\* Variant: the copy is never made; the caller's object is the working one.
WorkingInPlace(copy) == "arg"

\* adata = adata.copy() if copy else adata : the object the name adata is
\* bound to from line 108 on.
Working(copy) == IF copy THEN "dup" ELSE "arg"

\* return adata if copy else None
Return(heap, w, copy) == IF copy THEN [ref |-> w, val |-> heap[w]] ELSE None

\* Lines 107-115 on a validated request.
Apply(ad, target, factor, copy) ==
  LET heap0 == [arg |-> ad, dup |-> IF copy THEN ad ELSE NoData]
      w     == Working(copy)
      perturbed_counts == np_round(Multiply(ViewX(heap0[w], target), factor))
      heap1 == [heap0 EXCEPT ![w] = SetViewX(heap0[w], target, perturbed_counts)]
  IN [adata |-> heap1.arg, ret |-> Return(heap1, w, copy), err |-> NoError]

\* Variant: the columns are written before the duplicate check raises.
PerturbGenesWriteFirst(ad, target0, factor0, copy) ==
  LET target == NormTarget(target0)
      factor == NormFactor(factor0)
      e == Validate(ad, target.seq, factor.seq)
  IN IF ~HasLen(factor)
       THEN [adata |-> ad, ret |-> None, err |-> TypeErrorNoLen]
     ELSE IF e.check = "duplicate"
       THEN [adata |-> Apply(ad, target.seq, factor.seq, copy).adata,
             ret |-> None, err |-> e]
     ELSE IF e # NoError
       THEN [adata |-> ad, ret |-> None, err |-> e]
     ELSE Apply(ad, target.seq, factor.seq, copy)

\* The whole function: the caller's object after the call, the value
\* returned and the exception raised.
PerturbGenes(ad, target0, factor0, copy) ==
  LET target == NormTarget(target0)
      factor == NormFactor(factor0)
  IN IF ~HasLen(factor)
       THEN [adata |-> ad, ret |-> None, err |-> TypeErrorNoLen]
     ELSE IF Validate(ad, target.seq, factor.seq) # NoError
       THEN [adata |-> ad, ret |-> None, err |-> Validate(ad, target.seq, factor.seq)]
     ELSE Apply(ad, target.seq, factor.seq, copy)

----------------------------------------------------------------------------
\* Inputs

\* Gene identifiers a request may name; "GX" is in no matrix.
TargetNames == {"G1", "G2", "GX"}

\* Factors a request may carry: -1/2, 0, 1/2, 3/4, 2.
FactorValues == {Q(-1, 2), Q(0, 1), Q(1, 2), Q(3, 4), Q(2, 1)}

\* Those a caller can write as a Python int.
IntValues == {f \in FactorValues : f.den = 1}

TargetArgs ==
  {StrArg(t) : t \in TargetNames}
  \cup {ListOfStr(s) : s \in SeqsUpTo(TargetNames, MaxLen)}

FactorArgs ==
  {FloatArg(f) : f \in FactorValues}
  \cup {IntArg(f) : f \in IntValues}
  \cup {ListOfNum(s) : s \in SeqsUpTo(FactorValues, MaxLen)}

\* Raw-count matrices the caller may have loaded.
InitData ==
  { [obs_names |-> <<"c1", "c2">>, var_names |-> <<"G3", "G2", "G4", "G1">>,
     X |-> << <<2, 3, 1, 1>>, <<1, 1, 3, 0>> >>],
    [obs_names |-> <<"c1">>, var_names |-> <<"G2", "G3">>,
     X |-> << <<3, 1>> >>] }

Entries(ad) == {ad.X[i][j] : i \in DOMAIN ad.X, j \in DOMAIN ad.var_names}

----------------------------------------------------------------------------
\* State machine

Init ==
  /\ adata \in InitData
  /\ pre = adata
  /\ call = NoCall
  /\ ret = None
  /\ err = NoError
  /\ pc = "loaded"

\* One call perturb_genes(adata, target, factor, copy) on the caller's object.
perturb_genes(target, factor, copy) ==
  /\ \E out \in {PerturbGenes(adata, target, factor, copy)} :
       /\ \A v \in Entries(out.adata) \cup Entries(out.ret.val) : v <= MaxVal
       /\ pre' = adata
       /\ call' = [target |-> target, factor |-> factor, copy |-> copy]
       /\ adata' = out.adata
       /\ ret' = out.ret
       /\ err' = out.err
       /\ pc' = IF out.err = NoError THEN "returned" ELSE "raised"

\* The caller moves on to the next cell: the exception or the returned
\* value of the last call is dropped, the (possibly mutated) adata stays.
NextCell ==
  /\ pc \in {"returned", "raised"}
  /\ pre' = adata
  /\ call' = NoCall
  /\ ret' = None
  /\ err' = NoError
  /\ pc' = "loaded"
  /\ UNCHANGED adata

\* A cell that calls perturb_genes with some request.
CallCell ==
  /\ pc = "loaded"
  /\ \E target \in TargetArgs, factor \in FactorArgs, copy \in BOOLEAN :
       perturb_genes(target, factor, copy)

Next == CallCell \/ NextCell

Spec == Init /\ [][Next]_vars

----------------------------------------------------------------------------
\* Properties.  They are stated on the record of the last call: the request
\* (call), the caller's matrix before (pre) and after (adata), the value
\* returned (ret) and the exception raised (err).

Called == pc \in {"returned", "raised"}

Accepted == pc = "returned"

\* The request as the ordered lists of targets and factors it denotes, a
\* bare scalar being a list of one.
ReqTargets ==
  IF call.target.kind = "str" THEN <<call.target.scalar>> ELSE call.target.seq

ReqFactors ==
  IF call.factor.kind = "list" THEN call.factor.seq ELSE <<call.factor.scalar>>

\* The factor argument is a sequence once lines 79-80 have run (a list, or a
\* bare float).  A bare int is the subject of C7.
FactorIsSequence == call.factor.kind \in {"float", "list"}

Present(t) == \E j \in DOMAIN pre.var_names : pre.var_names[j] = t

LengthsMatch == Len(ReqTargets) = Len(ReqFactors)

AllPresent == \A k \in DOMAIN ReqTargets : Present(ReqTargets[k])

NoneNegative == \A k \in DOMAIN ReqFactors : ReqFactors[k].num >= 0

Distinct ==
  \A k, l \in DOMAIN ReqTargets : k # l => ReqTargets[k] # ReqTargets[l]

ValidRequest == LengthsMatch /\ AllPresent /\ NoneNegative /\ Distinct

\* The matrix that receives the perturbation.
Result == IF call.copy THEN ret.val ELSE adata

SameShapeAndLabels(a, b) ==
  /\ a.obs_names = b.obs_names
  /\ a.var_names = b.var_names
  /\ DOMAIN a.X = DOMAIN b.X
  /\ \A i \in DOMAIN a.X : DOMAIN a.X[i] = DOMAIN b.X[i]

Abs(x) == IF x < 0 THEN -x ELSE x

\* r is n/d rounded to the nearest integer, a tie going to the even one.
IsRounded(r, n, d) ==
  /\ 2 * Abs(d * r - n) <= d
  /\ (2 * Abs(d * r - n) = d => r % 2 = 0)

\* round(n/d) as a value.
Rounded(n, d) == CHOOSE r \in (n \div d)..(n \div d + 1) : IsRounded(r, n, d)

\* n/d lies exactly halfway between two integers.
IsTie(n, d) == (2 * n) % (2 * d) = d

\* res is orig with every targeted column scaled by its factor and rounded,
\* and everything else as in orig.
IsPerturbed(res, orig) ==
  /\ SameShapeAndLabels(res, orig)
  /\ \A i \in DOMAIN orig.X, j \in DOMAIN orig.var_names :
       IF \E k \in DOMAIN ReqTargets : ReqTargets[k] = orig.var_names[j]
       THEN \A k \in DOMAIN ReqTargets :
              ReqTargets[k] = orig.var_names[j] =>
                res.X[i][j] = Rounded(orig.X[i][j] * ReqFactors[k].num, ReqFactors[k].den)
       ELSE res.X[i][j] = orig.X[i][j]

\* C1: after a call with a valid request, every entry of every targeted
\* column equals round(original value * f), f being the factor at the
\* position the gene has in target; in every row, for one gene or several,
\* whatever the order of the genes in the request.
C1_TargetedColumnsScaled ==
  (Called /\ FactorIsSequence /\ ValidRequest) =>
    /\ Accepted
    /\ SameShapeAndLabels(Result, pre)
    /\ \A i \in DOMAIN pre.X, j \in DOMAIN pre.var_names, k \in DOMAIN ReqTargets :
         ReqTargets[k] = pre.var_names[j] =>
           Result.X[i][j] = Rounded(pre.X[i][j] * ReqFactors[k].num, ReqFactors[k].den)

\* A two-gene request naming the genes against their column order, with two
\* different factors, has changed the matrix in place.
C1_Witness ==
  /\ Accepted /\ ~call.copy
  /\ call.target = ListOfStr(<<"G1", "G2">>)
  /\ call.factor = ListOfNum(<<Q(2, 1), Q(1, 2)>>)
  /\ pre.var_names = <<"G3", "G2", "G4", "G1">>
  /\ \A i \in DOMAIN pre.X : adata.X[i][2] # pre.X[i][2]
  /\ adata.X[1][4] = 2 * pre.X[1][4]

\* C2: after a call with a valid request, every entry of a column not named
\* in target is unchanged, in the caller's matrix and in a returned matrix
\* compared with the original, and both have the shape and the row and
\* column labels of the original.
C2_OtherColumnsUnchanged ==
  (Called /\ ValidRequest) =>
    \A m \in {adata} \cup (IF ret.ref = "None" THEN {} ELSE {ret.val}) :
      /\ SameShapeAndLabels(m, pre)
      /\ \A i \in DOMAIN pre.X, j \in DOMAIN pre.var_names :
           (\A k \in DOMAIN ReqTargets : ReqTargets[k] # pre.var_names[j]) =>
             m.X[i][j] = pre.X[i][j]

\* A multi-gene request changed its columns and left other columns there.
C2_Witness ==
  /\ Accepted
  /\ Len(ReqTargets) = 2
  /\ Len(pre.var_names) > 2
  /\ Result # pre
  /\ \E j \in DOMAIN pre.var_names :
       /\ \A k \in DOMAIN ReqTargets : ReqTargets[k] # pre.var_names[j]
       /\ \E i \in DOMAIN pre.X : pre.X[i][j] > 0

\* C3: with copy=True a call never changes the caller's matrix and, when it
\* returns, returns the duplicate, which carries the perturbed values; with
\* copy=False a call that returns has put the perturbed values in the
\* caller's matrix and returns None.
C3_CopyFlag ==
  Called =>
    /\ call.copy => adata = pre
    /\ (call.copy /\ Accepted) =>
         /\ ret.ref = "dup"
         /\ IsPerturbed(ret.val, pre)
    /\ (~call.copy /\ Accepted) =>
         /\ ret = None
         /\ IsPerturbed(adata, pre)

\* A copying call returned a duplicate that differs from the untouched
\* original.
C3_Witness ==
  /\ Accepted /\ call.copy
  /\ ret.ref = "dup"
  /\ ret.val # pre
  /\ adata = pre

\* C4: when a call fails with one of the four validation errors, in either
\* copy mode, the caller's matrix is as it was before the call.
C4_RejectedLeavesMatrix ==
  (Called /\ err.type = "ValueError") => (adata = pre /\ ret = None)

\* An in-place request that would change a column is rejected as a duplicate.
C4_Witness ==
  /\ pc = "raised" /\ ~call.copy
  /\ err.check = "duplicate"
  /\ call.target = ListOfStr(<<"G2", "G2">>)
  /\ call.factor = ListOfNum(<<Q(1, 2), Q(0, 1)>>)
  /\ \E i \in DOMAIN pre.X, j \in DOMAIN pre.var_names :
       pre.var_names[j] = "G2" /\ pre.X[i][j] > 0

RECURSIVE AbsentUpTo(_)
AbsentUpTo(k) ==
  IF k = 0 THEN <<>>
  ELSE IF Present(ReqTargets[k]) THEN AbsentUpTo(k - 1)
  ELSE Append(AbsentUpTo(k - 1), ReqTargets[k])

\* C6: when the lengths match and a target is absent from the column
\* labels, the not-found error carries every absent target of the request,
\* in request order, and no present one, together with the first three
\* column labels (all of them when there are fewer than three).
C6_NotFoundMessage ==
  /\ (Called /\ FactorIsSequence /\ LengthsMatch /\ ~AllPresent) =>
       (err.type = "ValueError" /\ err.check = "missing")
  /\ err.check = "missing" =>
       /\ LengthsMatch /\ ~AllPresent
       /\ err.missing = AbsentUpTo(Len(ReqTargets))
       /\ Len(err.examples) = IF Len(pre.var_names) < 3 THEN Len(pre.var_names) ELSE 3
       /\ \A k \in DOMAIN err.examples : err.examples[k] = pre.var_names[k]

\* Two different absent targets around a present one are reported in
\* request order.
C6_Witness ==
  /\ pc = "raised"
  /\ err.check = "missing"
  /\ call.target = ListOfStr(<<"GX", "G1">>)
  /\ err.missing = <<"GX", "G1">>
  /\ Len(err.examples) = 2

\* The outcome of the call on the one-element lists [t] and [f].
ListFormOutcome ==
  PerturbGenes(pre, ListOfStr(<<call.target.scalar>>),
               ListOfNum(<<call.factor.scalar>>), call.copy)

\* C7: a call with a bare gene identifier t and a bare non-negative factor
\* f, float or int, has the outcome of the call with [t] and [f]: same
\* matrix, same return value, same error.
C7_ScalarSameAsList ==
  (Called /\ call.target.kind = "str" /\ call.factor.kind \in {"float", "int"}
          /\ call.factor.scalar.num >= 0) =>
    /\ adata = ListFormOutcome.adata
    /\ ret = ListFormOutcome.ret
    /\ err = ListFormOutcome.err

\* The check the rules of the request name first, in the order length,
\* not-found, negative, duplicate.
FirstViolated ==
  IF ~LengthsMatch THEN "length"
  ELSE IF ~AllPresent THEN "missing"
  ELSE IF ~NoneNegative THEN "negative"
  ELSE IF ~Distinct THEN "duplicate"
  ELSE "none"

\* C8: a validation error raised is that of the first violated rule in the
\* order length mismatch, unknown target, negative factor, duplicate target,
\* and of no other; a call that violates a rule does not return.
C8_FirstViolatedRuleReported ==
  /\ err.type = "ValueError" => err.check = FirstViolated
  /\ Accepted => FirstViolated = "none"
  /\ (Called /\ FactorIsSequence /\ FirstViolated # "none") =>
       (pc = "raised" /\ err.type = "ValueError")

\* [X, X] with X absent and a negative factor: three rules violated,
\* not-found reported.
C8_Witness ==
  /\ pc = "raised"
  /\ call.target = ListOfStr(<<"GX", "GX">>)
  /\ call.factor = ListOfNum(<<Q(-1, 2), Q(0, 1)>>)
  /\ err.check = "missing"

\* C9: every entry stored in a targeted column is a nearest integer of
\* original value * f, and where that product lies exactly halfway between
\* two integers the stored one is even.
C9_TiesToEven ==
  Accepted =>
    \A i \in DOMAIN pre.X, j \in DOMAIN pre.var_names, k \in DOMAIN ReqTargets :
      ReqTargets[k] = pre.var_names[j] =>
        LET n == pre.X[i][j] * ReqFactors[k].num
            d == ReqFactors[k].den
            r == Result.X[i][j]
        IN /\ IsTie(n, d) => (r % 2 = 0 /\ 2 * Abs(d * r - n) = d)
           /\ ~IsTie(n, d) => 2 * Abs(d * r - n) < d

\* One column holds 1 and 3: halved, 1 went down to 0 and 3 went up to 2.
C9_Witness ==
  /\ Accepted
  /\ \E j \in DOMAIN pre.var_names, k \in DOMAIN ReqTargets :
       /\ ReqTargets[k] = pre.var_names[j]
       /\ ReqFactors[k] = Q(1, 2)
       /\ \E i \in DOMAIN pre.X : pre.X[i][j] = 3 /\ Result.X[i][j] = 2
       /\ \E i \in DOMAIN pre.X : pre.X[i][j] = 1 /\ Result.X[i][j] = 0

\* C10: from a matrix of non-negative integers, after any sequence of calls
\* every entry of the caller's matrix and of a returned copy is a
\* non-negative integer, and a call that raised changed nothing.
C10_CountsStayNonNegative ==
  /\ \A v \in Entries(adata) \cup Entries(ret.val) : v \in Nat
  /\ pc = "raised" => adata = pre

\* A second in-place perturbation acted on an already perturbed matrix.
C10_Witness ==
  /\ Accepted /\ ~call.copy
  /\ pre \notin InitData
  /\ adata # pre
  /\ adata \notin InitData

====
